---------------------------- MODULE Spec2Model ----------------------------
(***************************************************************************)
(* A model of src/app.py, the audio silence cutter service:                *)
(*   - export_mp3_with_size_limit, the bitrate-descending export;          *)
(*   - process_audio / process_single_file, the /process-audio handler;    *)
(*   - cut_silence, the segment-and-concatenate pipeline.                  *)
(* Each part has its own specification (SpecExport, SpecBatch, SpecCut);   *)
(* the variables of the other parts stay at their idle values.             *)
(***************************************************************************)
EXTENDS Integers, Sequences, FiniteSets, TLC

VARIABLES
    \* export_mp3_with_size_limit
    ex_pc,          \* position: "idle", "loop", "encoded", "except", "fallback", "returned", "raised"
    ex_i,           \* index of the current candidate in bitrates
    max_size_bytes, \* the byte budget argument
    ex_fs,          \* the files that exist: path -> size
    ex_log,         \* history: the encodes invoked, in order
    ex_ret,         \* what the call returned: the bitrate and size of the file at output_path
    \* process_audio, the POST /process-audio handler
    rq_pc,          \* position: "idle", "recv", "loop", "done"
    rq_parts,       \* the multipart body: the file parts in upload order
    files,          \* the list "files": the parts to process, by upload index
    results,        \* the list "results": one dict per processed file
    successful_files, \* the list "successful_files"
    rq_fs,          \* the temporary files that exist
    rq_created,     \* history: every temporary file the request created
    rq_env,         \* history: what the codec and the disk did for each file
    response,       \* the response returned
    \* cut_silence
    cs_pc,          \* position: "idle", "load", "split", "combine", "returned", "raised"
    cs_file,        \* the file at audio_path: the level (dBFS) of each window
    cs_params,      \* the arguments min_silence_len, silence_thresh, keep_silence
    audio,          \* the decoded track: a sequence of frames
    chunks,         \* the list "chunks" split_on_silence returned
    cs_result,      \* the track cut_silence returned
    home_response,  \* the parameters GET / last reported
    \* the job table, process_audio_background and get_job_status
    job_present,    \* job_id in jobs
    job,            \* the dict jobs[job_id]; a query keeps its reference after "del"
    jb_fs,          \* the files of the job that exist: "input", "mp3"
    w_pc,           \* the worker's position
    w_output_path,  \* the worker's local output_path: "wav", then "mp3"
    w_error,        \* str(e) of the exception the worker caught
    q_pc,           \* each query thread's position
    q_local,        \* each query thread's locals and what held when it began
    q_count,        \* the queries begun so far
    q_log,          \* history: the responses returned
    jb_hist         \* history: the statuses written to the job, in order

exVars == <<ex_pc, ex_i, max_size_bytes, ex_fs, ex_log, ex_ret>>

rqVars == <<rq_pc, rq_parts, files, results, successful_files, rq_fs,
            rq_created, rq_env, response>>

csVars == <<cs_pc, cs_file, cs_params, audio, chunks, cs_result, home_response>>

jbVars == <<job_present, job, jb_fs, w_pc, w_output_path, w_error, q_pc,
            q_local, q_count, q_log, jb_hist>>

vars == <<exVars, rqVars, csVars, jbVars>>

-----------------------------------------------------------------------------
(* Bounds *)

\* Encoded sizes range over 1..MaxSize, budgets over 0..MaxSize.
MaxSize == 2

\* A request carries at most MaxParts file parts.
MaxParts == 3

\* A track has at most MaxWindows loudness windows.
MaxWindows == 12

\* At most MaxQueries GET /job/<id> queries are made.
MaxQueries == 3

-----------------------------------------------------------------------------
(* export_mp3_with_size_limit (src/app.py 72-123)                          *)

\* bitrates = [256, 192, 160, 128, 96, 64, 32]
bitrates == <<256, 192, 160, 128, 96, 64, 32>>

\* bitrate="24k", the extreme compression of the fallback
ExtremeBitrate == 24

\* output_path, and temp_path = output_path + f"_temp_{bitrate}.mp3"
output_path == <<"out", 0>>
temp_path(bitrate) == <<"temp", bitrate>>

ExPaths == {output_path} \cup {temp_path(bitrates[k]) : k \in 1..Len(bitrates)}

\* The size recorded for a path that does not exist.
Absent == 0

Sizes == 1..MaxSize

NoReturn == [bitrate |-> 0, size |-> 0]

\* A mutant of Fits: the budget itself is rejected.
FitsStrict(file_size, budget) == file_size < budget

\* if file_size <= max_size_bytes
Fits(file_size, budget) == file_size <= budget

ExportInit ==
    /\ ex_pc = "loop"
    /\ ex_i = 1
    /\ max_size_bytes \in 0..MaxSize
    /\ ex_fs = [p \in ExPaths |-> Absent]
    /\ ex_log = <<>>
    /\ ex_ret = NoReturn

ExportIdle ==
    /\ ex_pc = "idle"
    /\ ex_i = 1
    /\ max_size_bytes = 0
    /\ ex_fs = [p \in ExPaths |-> Absent]
    /\ ex_log = <<>>
    /\ ex_ret = NoReturn

\* audio.export(temp_path, format="mp3", bitrate=f"{bitrate}k") followed by
\* os.path.getsize: the codec either writes a file of some size, or raises,
\* leaving a partial file behind or not.
ExportEncode ==
    /\ ex_pc = "loop"
    /\ ex_i <= Len(bitrates)
    /\ LET bitrate == bitrates[ex_i] IN
       \/ \E file_size \in Sizes :
             /\ ex_fs' = [ex_fs EXCEPT ![temp_path(bitrate)] = file_size]
             /\ ex_log' = Append(ex_log, [bitrate |-> bitrate, ok |-> TRUE, size |-> file_size])
             /\ ex_pc' = "encoded"
       \/ \E partial \in {Absent} \cup Sizes :
             /\ ex_fs' = [ex_fs EXCEPT ![temp_path(bitrate)] = partial]
             /\ ex_log' = Append(ex_log, [bitrate |-> bitrate, ok |-> FALSE, size |-> 0])
             /\ ex_pc' = "except"
    /\ UNCHANGED <<ex_i, max_size_bytes, ex_ret>>
    /\ UNCHANGED <<rqVars, csVars, jbVars>>

\* The next iteration of "for bitrate in bitrates", or the code after the loop.
AfterCandidate(i) == IF i < Len(bitrates) THEN "loop" ELSE "fallback"

\* A mutant of ExportCheckSize: a candidate over the budget is encoded again
\* instead of moving on to the next lower bitrate.
ExportCheckSizeRetry ==
    /\ ex_pc = "encoded"
    /\ LET bitrate == bitrates[ex_i]
           file_size == ex_fs[temp_path(bitrate)]
       IN IF Fits(file_size, max_size_bytes)
          THEN /\ ex_fs' = [ex_fs EXCEPT ![temp_path(bitrate)] = Absent,
                                         ![output_path] = file_size]
               /\ ex_ret' = [bitrate |-> bitrate, size |-> file_size]
               /\ ex_pc' = "returned"
               /\ UNCHANGED ex_i
          ELSE /\ ex_fs' = [ex_fs EXCEPT ![temp_path(bitrate)] = Absent]
               /\ ex_pc' = "loop"
               /\ UNCHANGED <<ex_i, ex_ret>>
    /\ UNCHANGED <<max_size_bytes, ex_log>>
    /\ UNCHANGED <<rqVars, csVars, jbVars>>

\* if file_size <= max_size_bytes: os.rename(temp_path, output_path); return
\* else: os.unlink(temp_path), and on to the next bitrate
ExportCheckSize ==
    /\ ex_pc = "encoded"
    /\ LET bitrate == bitrates[ex_i]
           file_size == ex_fs[temp_path(bitrate)]
       IN IF Fits(file_size, max_size_bytes)
          THEN /\ ex_fs' = [ex_fs EXCEPT ![temp_path(bitrate)] = Absent,
                                         ![output_path] = file_size]
               /\ ex_ret' = [bitrate |-> bitrate, size |-> file_size]
               /\ ex_pc' = "returned"
               /\ UNCHANGED ex_i
          ELSE /\ ex_fs' = [ex_fs EXCEPT ![temp_path(bitrate)] = Absent]
               /\ ex_pc' = AfterCandidate(ex_i)
               /\ ex_i' = ex_i + 1
               /\ UNCHANGED ex_ret
    /\ UNCHANGED <<max_size_bytes, ex_log>>
    /\ UNCHANGED <<rqVars, csVars, jbVars>>

\* A mutant of ExportExcept: the partial file of a failed encode is left.
ExportExceptKeepsPartial ==
    /\ ex_pc = "except"
    /\ ex_pc' = AfterCandidate(ex_i)
    /\ ex_i' = ex_i + 1
    /\ UNCHANGED <<max_size_bytes, ex_fs, ex_log, ex_ret>>
    /\ UNCHANGED <<rqVars, csVars, jbVars>>

\* A mutant of ExportExcept: the handler re-raises instead of continuing.
ExportExceptRaises ==
    /\ ex_pc = "except"
    /\ ex_fs' = [ex_fs EXCEPT ![temp_path(bitrates[ex_i])] = Absent]
    /\ ex_pc' = "raised"
    /\ UNCHANGED <<ex_i, max_size_bytes, ex_log, ex_ret>>
    /\ UNCHANGED <<rqVars, csVars, jbVars>>

\* except Exception: if os.path.exists(temp_path): os.unlink(temp_path); continue
ExportExcept ==
    /\ ex_pc = "except"
    /\ ex_fs' = [ex_fs EXCEPT ![temp_path(bitrates[ex_i])] = Absent]
    /\ ex_pc' = AfterCandidate(ex_i)
    /\ ex_i' = ex_i + 1
    /\ UNCHANGED <<max_size_bytes, ex_log, ex_ret>>
    /\ UNCHANGED <<rqVars, csVars, jbVars>>

\* A mutant of ExportFallback: the fallback result is held to the budget too.
ExportFallbackChecked ==
    /\ ex_pc = "fallback"
    /\ \/ \E file_size \in Sizes :
             /\ ex_fs' = [ex_fs EXCEPT ![output_path] = file_size]
             /\ ex_log' = Append(ex_log, [bitrate |-> ExtremeBitrate, ok |-> TRUE, size |-> file_size])
             /\ IF Fits(file_size, max_size_bytes)
                THEN /\ ex_ret' = [bitrate |-> ExtremeBitrate, size |-> file_size]
                     /\ ex_pc' = "returned"
                ELSE /\ ex_pc' = "raised"
                     /\ UNCHANGED ex_ret
       \/ \E partial \in {Absent} \cup Sizes :
             /\ ex_fs' = [ex_fs EXCEPT ![output_path] = partial]
             /\ ex_log' = Append(ex_log, [bitrate |-> ExtremeBitrate, ok |-> FALSE, size |-> 0])
             /\ ex_pc' = "raised"
             /\ UNCHANGED ex_ret
    /\ UNCHANGED <<ex_i, max_size_bytes>>
    /\ UNCHANGED <<rqVars, csVars, jbVars>>

\* After the loop: audio.export(output_path, bitrate="24k"); return output_path,
\* whatever its size; except: raise Exception("Unable to compress ...")
ExportFallback ==
    /\ ex_pc = "fallback"
    /\ \/ \E file_size \in Sizes :
             /\ ex_fs' = [ex_fs EXCEPT ![output_path] = file_size]
             /\ ex_log' = Append(ex_log, [bitrate |-> ExtremeBitrate, ok |-> TRUE, size |-> file_size])
             /\ ex_ret' = [bitrate |-> ExtremeBitrate, size |-> file_size]
             /\ ex_pc' = "returned"
       \/ \E partial \in {Absent} \cup Sizes :
             /\ ex_fs' = [ex_fs EXCEPT ![output_path] = partial]
             /\ ex_log' = Append(ex_log, [bitrate |-> ExtremeBitrate, ok |-> FALSE, size |-> 0])
             /\ ex_pc' = "raised"
             /\ UNCHANGED ex_ret
    /\ UNCHANGED <<ex_i, max_size_bytes>>
    /\ UNCHANGED <<rqVars, csVars, jbVars>>


-----------------------------------------------------------------------------
(* process_single_file and process_audio (src/app.py 157-344)              *)

\* The field names of the multipart body, and the filenames of its parts.
Fields == {"file", "audio"}
Filenames == {"", "a.wav", "x.exe"}
Parts == [field : Fields, filename : Filenames]

\* The sequences over S of length at most n.
SeqsUpTo(S, n) == UNION {[1..m -> S] : m \in 0..n}

\* The extension of a filename, and the extensions the service accepts: the
\* allow-list of the interface, which src/app.py does not implement.
Extension(filename) ==
    CASE filename = "a.wav" -> "wav"
      [] filename = "x.exe" -> "exe"
      [] OTHER -> ""
AllowedExtensions == {"wav", "mp3", "m4a", "ogg", "flac"}

\* f"{filename.rsplit('.', 1)[0]}_processed.wav"
ProcessedName(filename) ==
    CASE filename = "a.wav" -> "a_processed.wav"
      [] filename = "x.exe" -> "x_processed.wav"
      [] OTHER -> "_processed.wav"

\* request.files is a MultiDict: iterating it yields each field name once, in
\* the order of its first part.
RECURSIVE Keys(_, _)
Keys(parts, k) ==
    IF k > Len(parts) THEN <<>>
    ELSE IF \E j \in 1..(k - 1) : parts[j].field = parts[k].field
         THEN Keys(parts, k + 1)
         ELSE <<parts[k].field>> \o Keys(parts, k + 1)

\* request.files.getlist(key): the parts of that field, in upload order.
RECURSIVE GetList(_, _, _)
GetList(parts, key, k) ==
    IF k > Len(parts) THEN <<>>
    ELSE IF parts[k].field = key
         THEN <<k>> \o GetList(parts, key, k + 1)
         ELSE GetList(parts, key, k + 1)

RECURSIVE ExtendAll(_, _, _)
ExtendAll(parts, keys, k) ==
    IF k > Len(keys) THEN <<>>
    ELSE GetList(parts, keys[k], 1) \o ExtendAll(parts, keys, k + 1)

\* if 'file' in request.files: files = [request.files['file']]
\* else: for key in request.files: files.extend(request.files.getlist(key))
GetAllFiles(parts) ==
    IF \E k \in 1..Len(parts) : parts[k].field = "file"
    THEN <<GetList(parts, "file", 1)[1]>>
    ELSE ExtendAll(parts, Keys(parts, 1), 1)

\* A mutant of FilterNamed: parts without a filename are kept.
FilterNamedKeepsAll(parts, fs) == fs

\* files = [f for f in files if f.filename != '']
FilterNamed(parts, fs) == SelectSeq(fs, LAMBDA k : parts[k].filename # "")

\* The temporary files of a request: the input and the output of the file at
\* position k of "files", and the zip archive.
input_path(k) == <<"input", k>>
processed_path(k) == <<"processed", k>>
zip_path == <<"zip", 0>>

\* What can happen to one file: file.save, AudioSegment.from_file,
\* split_on_silence or export raises, export leaves no file, or all succeed.
Outcomes == {"save_error", "decode_error", "split_error", "export_error", "no_output", "ok"}

\* str(e) of the exception raised, or the handler's own message.
ErrorMessage(outcome) ==
    CASE outcome = "save_error" -> "could not save the upload"
      [] outcome = "decode_error" -> "decoding failed"
      [] outcome = "split_error" -> "splitting on silence failed"
      [] outcome = "export_error" -> "encoding failed"
      [] outcome = "no_output" -> "Processed file not found"
      [] OTHER -> "None"

NoSummary ==
    [total_files |-> 0, successful_files |-> 0, failed_files |-> 0,
     processing_summary |-> <<>>]

NoResponse ==
    [status |-> 0, kind |-> "none", error |-> "", details |-> <<>>,
     body |-> 0, filename |-> "", archive |-> <<>>, summary |-> NoSummary]

JsonError(status, error, details) ==
    [NoResponse EXCEPT !.status = status, !.kind = "json", !.error = error,
                       !.details = details]

BatchInit ==
    /\ rq_pc = "recv"
    /\ rq_parts \in SeqsUpTo(Parts, MaxParts)
    /\ files = <<>>
    /\ results = <<>>
    /\ successful_files = <<>>
    /\ rq_fs = {}
    /\ rq_created = {}
    /\ rq_env = <<>>
    /\ response = NoResponse

BatchIdle ==
    /\ rq_pc = "idle"
    /\ rq_parts = <<>>
    /\ files = <<>>
    /\ results = <<>>
    /\ successful_files = <<>>
    /\ rq_fs = {}
    /\ rq_created = {}
    /\ rq_env = <<>>
    /\ response = NoResponse

\* process_audio, lines 222-245: the request is refused with 400 when it has
\* no file part or no part with a filename; otherwise "files" is built.
ReceiveRequest ==
    /\ rq_pc = "recv"
    /\ IF Len(rq_parts) = 0
       THEN /\ response' = JsonError(400, "No files provided", <<>>)
            /\ rq_pc' = "done"
            /\ UNCHANGED files
       ELSE LET selected == FilterNamed(rq_parts, GetAllFiles(rq_parts)) IN
            IF Len(selected) = 0
            THEN /\ response' = JsonError(400, "No valid files selected", <<>>)
                 /\ rq_pc' = "done"
                 /\ UNCHANGED files
            ELSE /\ files' = selected
                 /\ rq_pc' = "loop"
                 /\ UNCHANGED response
    /\ UNCHANGED <<rq_parts, results, successful_files, rq_fs, rq_created, rq_env>>
    /\ UNCHANGED <<exVars, csVars, jbVars>>

\* The result dict process_single_file returns for the file at position k.
Result(k, outcome, file_size) ==
    [part |-> files[k],
     filename |-> rq_parts[files[k]].filename,
     success |-> outcome = "ok",
     error |-> ErrorMessage(outcome),
     output_path |-> IF outcome = "ok" THEN processed_path(k) ELSE <<"None", 0>>,
     file_size |-> IF outcome = "ok" THEN file_size ELSE 0]

\* The temporary files process_single_file leaves behind: the input file is
\* removed in "finally" once input_path is bound, which is after file.save;
\* the output file is removed in "except", and kept on success.
LeftBehind(k, outcome) ==
    CASE outcome = "save_error" -> {input_path(k)}
      [] outcome = "ok" -> {processed_path(k)}
      [] OTHER -> {}

\* The temporary files process_single_file creates; a failed export may have
\* written part of the output.
Created(k, outcome, partial) ==
    {input_path(k)}
      \cup (IF outcome = "ok" \/ (outcome = "export_error" /\ partial)
            THEN {processed_path(k)} ELSE {})

\* A mutant of ProcessSingleFile: the exception of a failing file escapes and
\* ends the request with a 500, the files after it unprocessed.
ProcessSingleFileEscapes ==
    /\ rq_pc = "loop"
    /\ Len(results) < Len(files)
    /\ LET k == Len(results) + 1 IN
       \E outcome \in Outcomes, file_size \in Sizes, partial \in BOOLEAN :
          /\ outcome # "ok" => file_size = 1
          /\ outcome # "export_error" => partial = FALSE
          /\ rq_env' = Append(rq_env, outcome)
          /\ rq_created' = rq_created \cup Created(k, outcome, partial)
          /\ rq_fs' = rq_fs \cup LeftBehind(k, outcome)
          /\ IF outcome = "ok"
             THEN /\ results' = Append(results, Result(k, outcome, file_size))
                  /\ successful_files' = Append(successful_files, Result(k, outcome, file_size))
                  /\ UNCHANGED <<rq_pc, response>>
             ELSE /\ response' = JsonError(500, ErrorMessage(outcome), <<>>)
                  /\ rq_pc' = "done"
                  /\ UNCHANGED <<results, successful_files>>
    /\ UNCHANGED <<rq_parts, files>>
    /\ UNCHANGED <<exVars, csVars, jbVars>>

\* One iteration of "for i, file in enumerate(files)": process_single_file
\* runs on the next file and its result is appended to "results", and to
\* "successful_files" when it succeeded.
ProcessSingleFile ==
    /\ rq_pc = "loop"
    /\ Len(results) < Len(files)
    /\ LET k == Len(results) + 1 IN
       \E outcome \in Outcomes, file_size \in Sizes, partial \in BOOLEAN :
          /\ outcome # "ok" => file_size = 1
          /\ outcome # "export_error" => partial = FALSE
          /\ rq_env' = Append(rq_env, outcome)
          /\ rq_created' = rq_created \cup Created(k, outcome, partial)
          /\ rq_fs' = rq_fs \cup LeftBehind(k, outcome)
          /\ results' = Append(results, Result(k, outcome, file_size))
          /\ successful_files' =
                IF outcome = "ok"
                THEN Append(successful_files, Result(k, outcome, file_size))
                ELSE successful_files
    /\ UNCHANGED <<rq_pc, rq_parts, files, response>>
    /\ UNCHANGED <<exVars, csVars, jbVars>>

AllProcessed == rq_pc = "loop" /\ Len(results) = Len(files)

\* [{'filename': ..., 'error': ...} for r in results if not r['success']]
Details(rs) ==
    LET failed == SelectSeq(rs, LAMBDA r : ~r.success)
    IN [k \in 1..Len(failed) |-> [filename |-> failed[k].filename, error |-> failed[k].error]]

\* if not successful_files: return jsonify(error_summary), 500
RespondNoSuccess ==
    /\ AllProcessed
    /\ Len(successful_files) = 0
    /\ response' = JsonError(500, "No files processed successfully", Details(results))
    /\ rq_pc' = "done"
    /\ UNCHANGED <<rq_parts, files, results, successful_files, rq_fs, rq_created, rq_env>>
    /\ UNCHANGED <<exVars, csVars, jbVars>>

\* A mutant of RespondSingle: the direct response is chosen by the number of
\* successes instead of the number of files.
RespondSingleBySuccesses ==
    /\ AllProcessed
    /\ Len(successful_files) = 1
    /\ LET result == successful_files[1] IN
       /\ response' = [NoResponse EXCEPT !.status = 200, !.kind = "audio/wav",
                                         !.body = result.part,
                                         !.filename = ProcessedName(result.filename)]
       /\ rq_fs' = rq_fs \ {result.output_path}
    /\ rq_pc' = "done"
    /\ UNCHANGED <<rq_parts, files, results, successful_files, rq_created, rq_env>>
    /\ UNCHANGED <<exVars, csVars, jbVars>>

\* if len(files) == 1 and successful_files: the output file is read, removed
\* and returned as the body of the response.
RespondSingle ==
    /\ AllProcessed
    /\ Len(successful_files) > 0
    /\ Len(files) = 1
    /\ LET result == successful_files[1] IN
       /\ response' = [NoResponse EXCEPT !.status = 200, !.kind = "audio/wav",
                                         !.body = result.part,
                                         !.filename = ProcessedName(result.filename)]
       /\ rq_fs' = rq_fs \ {result.output_path}
    /\ rq_pc' = "done"
    /\ UNCHANGED <<rq_parts, files, results, successful_files, rq_created, rq_env>>
    /\ UNCHANGED <<exVars, csVars, jbVars>>

\* The entries written to the zip: zipf.write for every successful file whose
\* output exists, then zipf.writestr('processing_summary.json', ...).
ZipEntries(fs) ==
    LET present == SelectSeq(successful_files,
                             LAMBDA r : r.success /\ r.output_path \in fs)
    IN [k \in 1..Len(present) |->
           [name |-> ProcessedName(present[k].filename), part |-> present[k].part]]
       \o <<[name |-> "processing_summary.json", part |-> 0]>>

\* A mutant of Summary: the summary lists the successful files only.
SummaryOfSuccesses ==
    [total_files |-> Len(files),
     successful_files |-> Len(successful_files),
     failed_files |-> Len(files) - Len(successful_files),
     processing_summary |->
        [k \in 1..Len(successful_files) |->
            [filename |-> successful_files[k].filename,
             success |-> successful_files[k].success,
             error |-> successful_files[k].error,
             file_size |-> successful_files[k].file_size]]]

\* The summary dict of lines 303-315.
Summary ==
    [total_files |-> Len(files),
     successful_files |-> Len(successful_files),
     failed_files |-> Len(files) - Len(successful_files),
     processing_summary |->
        [k \in 1..Len(results) |->
            [filename |-> results[k].filename,
             success |-> results[k].success,
             error |-> results[k].error,
             file_size |-> IF results[k].success THEN results[k].file_size ELSE 0]]]

OutputPaths == {successful_files[k].output_path : k \in 1..Len(successful_files)}

\* Lines 288-336: the zip is built in a temporary file, read, and every
\* output file and the zip file are removed.
RespondArchive ==
    /\ AllProcessed
    /\ Len(successful_files) > 0
    /\ Len(files) # 1
    /\ response' = [NoResponse EXCEPT !.status = 200, !.kind = "application/zip",
                                      !.archive = ZipEntries(rq_fs),
                                      !.summary = Summary]
    /\ rq_created' = rq_created \cup {zip_path}
    /\ rq_fs' = (rq_fs \ OutputPaths) \ {zip_path}
    /\ rq_pc' = "done"
    /\ UNCHANGED <<rq_parts, files, results, successful_files, rq_env>>
    /\ UNCHANGED <<exVars, csVars, jbVars>>

\* Lines 338-344: building or reading the zip raised, before or after the
\* temporary zip file was created; the handler removes the output files and
\* answers 500.
RespondArchiveError ==
    /\ AllProcessed
    /\ Len(successful_files) > 0
    /\ Len(files) # 1
    /\ \E zip_created \in BOOLEAN :
          LET zips == IF zip_created THEN {zip_path} ELSE {} IN
          /\ rq_created' = rq_created \cup zips
          /\ rq_fs' = (rq_fs \ OutputPaths) \cup zips
    /\ response' = JsonError(500, "Error creating zip archive", <<>>)
    /\ rq_pc' = "done"
    /\ UNCHANGED <<rq_parts, files, results, successful_files, rq_env>>
    /\ UNCHANGED <<exVars, csVars, jbVars>>

-----------------------------------------------------------------------------
(* cut_silence (src/app.py 32-70)                                          *)

\* def cut_silence(audio_path, min_silence_len=100, silence_thresh=-30, keep_silence=30)
min_silence_len == 100
silence_thresh == -30
keep_silence == 30

DefaultParams ==
    [min_silence_len |-> min_silence_len,
     silence_thresh |-> silence_thresh,
     keep_silence |-> keep_silence]

\* The length in ms of one loudness window, and the levels a window can have:
\* one below and one above the threshold.
WindowMs == 10
Levels == {-50, -10}

Max(a, b) == IF a >= b THEN a ELSE b
Min(a, b) == IF a <= b THEN a ELSE b

\* AudioSegment.from_file: the track decoded from the file, frame by frame.
Decode(file) == [k \in 1..Len(file) |-> [pos |-> k, level |-> file[k]]]

\* len(audio), in ms.
Duration(track) == Len(track) * WindowMs

\* A window is silent when its level is below the threshold.
Silent(track, k, p) == track[k].level < p.silence_thresh

\* The window lies in a silence run of at least min_silence_len: a gap that
\* splits the track. A shorter run is absorbed into the material around it.
InGap(track, k, p) ==
    /\ Silent(track, k, p)
    /\ LET first == CHOOSE a \in 1..k :
                       /\ \A j \in a..k : Silent(track, j, p)
                       /\ a > 1 => ~Silent(track, a - 1, p)
           last == CHOOSE b \in k..Len(track) :
                       /\ \A j \in k..b : Silent(track, j, p)
                       /\ b < Len(track) => ~Silent(track, b + 1, p)
       IN (last - first + 1) * WindowMs >= p.min_silence_len

\* The scan of the windows in chronological order: "open" is the first window
\* of the range being built, or 0.
RECURSIVE ScanRanges(_, _, _, _)
ScanRanges(track, p, k, open) ==
    IF k > Len(track)
    THEN IF open > 0
         THEN <<[start_ms |-> (open - 1) * WindowMs, end_ms |-> Len(track) * WindowMs]>>
         ELSE <<>>
    ELSE IF ~InGap(track, k, p)
         THEN ScanRanges(track, p, k + 1, IF open > 0 THEN open ELSE k)
         ELSE (IF open > 0
               THEN <<[start_ms |-> (open - 1) * WindowMs, end_ms |-> (k - 1) * WindowMs]>>
               ELSE <<>>)
              \o ScanRanges(track, p, k + 1, 0)

\* The non-silent ranges of a track; none when the whole track is below the
\* threshold.
NonSilentRanges(track, p) ==
    IF \A k \in 1..Len(track) : Silent(track, k, p)
    THEN <<>>
    ELSE ScanRanges(track, p, 1, 0)

\* A range expanded by keep_silence on each side and clamped to the track.
PaddedRange(r, track, p) ==
    [start_ms |-> Max(0, r.start_ms - p.keep_silence),
     end_ms |-> Min(Duration(track), r.end_ms + p.keep_silence)]

\* audio_segment[start:end], in ms.
Slice(track, start_ms, end_ms) ==
    SubSeq(track, (start_ms \div WindowMs) + 1, end_ms \div WindowMs)

\* split_on_silence(audio, min_silence_len, silence_thresh, keep_silence):
\* one chunk per padded range, in range order.
SplitOnSilence(track, p) ==
    LET ranges == NonSilentRanges(track, p)
    IN [i \in 1..Len(ranges) |->
           LET padded == PaddedRange(ranges[i], track, p)
           IN Slice(track, padded.start_ms, padded.end_ms)]

\* A mutant of Combine: each chunk is put in front of the result.
RECURSIVE CombineInFront(_, _)
CombineInFront(cs, k) == IF k > Len(cs) THEN <<>> ELSE CombineInFront(cs, k + 1) \o cs[k]

\* result = AudioSegment.empty(); for chunk in chunks: result += chunk
RECURSIVE Combine(_, _)
Combine(cs, k) == IF k > Len(cs) THEN <<>> ELSE cs[k] \o Combine(cs, k + 1)

\* Before GET / was answered.
NoHome == [min_silence_len |-> 0, silence_thresh |-> 0, keep_silence |-> 0]

\* The 'parameters' of home(), lines 408-412.
HomeParameters == [min_silence_len |-> 50, silence_thresh |-> -40, keep_silence |-> 33]

CutInit ==
    /\ cs_pc = "load"
    /\ cs_file \in SeqsUpTo(Levels, MaxWindows)
    /\ cs_params = DefaultParams
    /\ audio = <<>>
    /\ chunks = <<>>
    /\ cs_result = <<>>
    /\ home_response = NoHome

CutIdle ==
    /\ cs_pc = "idle"
    /\ cs_file = <<>>
    /\ cs_params = DefaultParams
    /\ audio = <<>>
    /\ chunks = <<>>
    /\ cs_result = <<>>
    /\ home_response = NoHome

\* Lines 37-42: audio = AudioSegment.from_file(audio_path), or the decoder
\* raises and cut_silence re-raises.
CutLoad ==
    /\ cs_pc = "load"
    /\ \/ /\ audio' = Decode(cs_file)
          /\ cs_pc' = "split"
       \/ /\ cs_pc' = "raised"
          /\ UNCHANGED audio
    /\ UNCHANGED <<cs_file, cs_params, chunks, cs_result, home_response>>
    /\ UNCHANGED <<exVars, rqVars, jbVars>>

\* A mutant of CutSplit: without "if not chunks: return audio".
CutSplitNoFallback ==
    /\ cs_pc = "split"
    /\ \/ /\ chunks' = SplitOnSilence(audio, cs_params)
          /\ cs_pc' = "combine"
          /\ UNCHANGED cs_result
       \/ /\ cs_pc' = "raised"
          /\ UNCHANGED <<chunks, cs_result>>
    /\ UNCHANGED <<cs_file, cs_params, audio, home_response>>
    /\ UNCHANGED <<exVars, rqVars, jbVars>>

\* Lines 45-59: chunks = split_on_silence(...); if not chunks: return audio;
\* an exception is re-raised.
CutSplit ==
    /\ cs_pc = "split"
    /\ \/ /\ chunks' = SplitOnSilence(audio, cs_params)
          /\ IF chunks' = <<>>
             THEN /\ cs_result' = audio
                  /\ cs_pc' = "returned"
             ELSE /\ cs_pc' = "combine"
                  /\ UNCHANGED cs_result
       \/ /\ cs_pc' = "raised"
          /\ UNCHANGED <<chunks, cs_result>>
    /\ UNCHANGED <<cs_file, cs_params, audio, home_response>>
    /\ UNCHANGED <<exVars, rqVars, jbVars>>

\* Lines 62-70: the chunks are concatenated into a new track and returned; an
\* exception is re-raised.
CutCombine ==
    /\ cs_pc = "combine"
    /\ \/ /\ cs_result' = Combine(chunks, 1)
          /\ cs_pc' = "returned"
       \/ /\ cs_pc' = "raised"
          /\ UNCHANGED cs_result
    /\ UNCHANGED <<cs_file, cs_params, audio, chunks, home_response>>
    /\ UNCHANGED <<exVars, rqVars, jbVars>>


-----------------------------------------------------------------------------
(* The job table, process_audio_background and get_job_status              *)
(* (src/app.py 27, 125-155, 346-390). One job; the server is threaded, so  *)
(* the worker and the queries interleave between statements.               *)

\* The threads that serve GET /job/<id> (app.run(..., threaded=True)).
QueryThreads == {"q1", "q2"}

\* output_path.replace('.wav', '.mp3')
Mp3Path(path) == IF path = "wav" THEN "mp3" ELSE path

NoLocal ==
    [n |-> 0, began_terminal |-> FALSE, began_first |-> FALSE,
     began_delivered |-> FALSE, saw |-> "none", output_path |-> "unset",
     error_msg |-> ""]

TerminalReached == \E k \in 1..Len(jb_hist) : jb_hist[k] \in {"completed", "failed"}

\* A response that delivered the terminal result of the job.
Delivers(r) == r.kind \in {"artifact", "failed"}

\* The job as submitted: pending, its upload saved; whether the record
\* already names an output path is left open.
JobsInit ==
    /\ job_present = TRUE
    /\ job \in [status : {"pending"}, output_path : {"unset", "wav"},
                error : {"unset"}, completed_at : {FALSE}]
    /\ jb_fs = {"input"}
    /\ w_pc = "idle"
    /\ w_output_path = "wav"
    /\ w_error = "none"
    /\ q_pc = [t \in QueryThreads |-> "idle"]
    /\ q_local = [t \in QueryThreads |-> NoLocal]
    /\ q_count = 0
    /\ q_log = {}
    /\ jb_hist = <<"pending">>

JobsIdle ==
    /\ job_present = FALSE
    /\ job = [status |-> "none", output_path |-> "unset", error |-> "unset",
              completed_at |-> FALSE]
    /\ jb_fs = {}
    /\ w_pc = "off"
    /\ w_output_path = "wav"
    /\ w_error = "none"
    /\ q_pc = [t \in QueryThreads |-> "off"]
    /\ q_local = [t \in QueryThreads |-> NoLocal]
    /\ q_count = 0
    /\ q_log = {}
    /\ jb_hist = <<>>

qVars == <<q_pc, q_local, q_count, q_log>>
otherVars == <<exVars, rqVars, csVars>>

\* jobs[job_id][field] = value raises KeyError once the job was deleted.
\* Line 128: jobs[job_id]['status'] = 'processing'
WorkerStart ==
    /\ w_pc = "idle"
    /\ IF job_present
       THEN /\ job' = [job EXCEPT !.status = "processing"]
            /\ jb_hist' = Append(jb_hist, "processing")
            /\ w_pc' = "cut"
            /\ UNCHANGED w_error
       ELSE /\ w_pc' = "e147"
            /\ w_error' = "KeyError"
            /\ UNCHANGED <<job, jb_hist>>
    /\ UNCHANGED <<job_present, jb_fs, w_output_path, qVars, otherVars>>

\* A mutant of WorkerCut: an exception of cut_silence ends the worker thread
\* without being caught.
WorkerCutUncaught ==
    /\ w_pc = "cut"
    /\ \/ /\ w_pc' = "export"
          /\ UNCHANGED w_error
       \/ /\ w_pc' = "faulted"
          /\ w_error' = "decoding failed"
    /\ UNCHANGED <<job_present, job, jb_fs, w_output_path, jb_hist, qVars, otherVars>>

\* Line 132: processed_audio = cut_silence(input_path), which returns or raises.
WorkerCut ==
    /\ w_pc = "cut"
    /\ \/ /\ w_pc' = "export"
          /\ UNCHANGED w_error
       \/ /\ w_pc' = "e147"
          /\ w_error' = "decoding failed"
    /\ UNCHANGED <<job_present, job, jb_fs, w_output_path, jb_hist, qVars, otherVars>>

\* Lines 135-137: output_path = output_path.replace('.wav', '.mp3');
\* export_mp3_with_size_limit writes the file and returns, or raises, its
\* fallback having left a partial file at output_path or not.
WorkerExport ==
    /\ w_pc = "export"
    /\ w_output_path' = Mp3Path(w_output_path)
    /\ \/ /\ jb_fs' = jb_fs \cup {Mp3Path(w_output_path)}
          /\ w_pc' = "l140"
          /\ UNCHANGED w_error
       \/ \E partial \in BOOLEAN :
             /\ jb_fs' = jb_fs \cup (IF partial THEN {Mp3Path(w_output_path)} ELSE {})
             /\ w_pc' = "e147"
             /\ w_error' = "Unable to compress audio under 50MB limit"
    /\ UNCHANGED <<job_present, job, jb_hist, qVars, otherVars>>

\* Line 140: jobs[job_id]['status'] = 'completed'
WorkerCompleted ==
    /\ w_pc = "l140"
    /\ IF job_present
       THEN /\ job' = [job EXCEPT !.status = "completed"]
            /\ jb_hist' = Append(jb_hist, "completed")
            /\ w_pc' = "l141"
            /\ UNCHANGED w_error
       ELSE /\ w_pc' = "e147"
            /\ w_error' = "KeyError"
            /\ UNCHANGED <<job, jb_hist>>
    /\ UNCHANGED <<job_present, jb_fs, w_output_path, qVars, otherVars>>

\* Line 141: jobs[job_id]['output_path'] = output_path
WorkerOutputPath ==
    /\ w_pc = "l141"
    /\ IF job_present
       THEN /\ job' = [job EXCEPT !.output_path = w_output_path]
            /\ w_pc' = "l142"
            /\ UNCHANGED w_error
       ELSE /\ w_pc' = "e147"
            /\ w_error' = "KeyError"
            /\ UNCHANGED job
    /\ UNCHANGED <<job_present, jb_fs, w_output_path, jb_hist, qVars, otherVars>>

\* Line 142: jobs[job_id]['completed_at'] = datetime.now()
WorkerCompletedAt ==
    /\ w_pc = "l142"
    /\ IF job_present
       THEN /\ job' = [job EXCEPT !.completed_at = TRUE]
            /\ w_pc' = "done"
            /\ UNCHANGED w_error
       ELSE /\ w_pc' = "e147"
            /\ w_error' = "KeyError"
            /\ UNCHANGED job
    /\ UNCHANGED <<job_present, jb_fs, w_output_path, jb_hist, qVars, otherVars>>

\* A mutant of WorkerFailed: the handler writes through a reference to the
\* job's dict, which outlives the record's removal from the table.
WorkerFailedByReference ==
    /\ w_pc = "e147"
    /\ job' = [job EXCEPT !.status = "failed"]
    /\ jb_hist' = Append(jb_hist, "failed")
    /\ w_pc' = "e148"
    /\ UNCHANGED <<job_present, jb_fs, w_output_path, w_error, qVars, otherVars>>

\* Line 147, in "except Exception as e": jobs[job_id]['status'] = 'failed'.
\* A KeyError here leaves the handler and ends the worker thread.
WorkerFailed ==
    /\ w_pc = "e147"
    /\ IF job_present
       THEN /\ job' = [job EXCEPT !.status = "failed"]
            /\ jb_hist' = Append(jb_hist, "failed")
            /\ w_pc' = "e148"
       ELSE /\ w_pc' = "faulted"
            /\ UNCHANGED <<job, jb_hist>>
    /\ UNCHANGED <<job_present, jb_fs, w_output_path, w_error, qVars, otherVars>>

\* Line 148: jobs[job_id]['error'] = str(e)
WorkerError ==
    /\ w_pc = "e148"
    /\ IF job_present
       THEN /\ job' = [job EXCEPT !.error = w_error]
            /\ w_pc' = "e149"
       ELSE /\ w_pc' = "faulted"
            /\ UNCHANGED job
    /\ UNCHANGED <<job_present, jb_fs, w_output_path, w_error, jb_hist, qVars, otherVars>>

\* Line 149: jobs[job_id]['completed_at'] = datetime.now()
WorkerFailedAt ==
    /\ w_pc = "e149"
    /\ IF job_present
       THEN /\ job' = [job EXCEPT !.completed_at = TRUE]
            /\ w_pc' = "l152"
       ELSE /\ w_pc' = "faulted"
            /\ UNCHANGED job
    /\ UNCHANGED <<job_present, jb_fs, w_output_path, w_error, jb_hist, qVars, otherVars>>

\* Line 152: if os.path.exists(input_path)
WorkerInputExists ==
    /\ w_pc = "l152"
    /\ w_pc' = IF "input" \in jb_fs THEN "l153" ELSE "l154"
    /\ UNCHANGED <<job_present, job, jb_fs, w_output_path, w_error, jb_hist, qVars, otherVars>>

\* Line 153: os.unlink(input_path), which raises when a query removed the
\* file in between.
WorkerUnlinkInput ==
    /\ w_pc = "l153"
    /\ IF "input" \in jb_fs
       THEN /\ jb_fs' = jb_fs \ {"input"}
            /\ w_pc' = "l154"
       ELSE /\ w_pc' = "faulted"
            /\ UNCHANGED jb_fs
    /\ UNCHANGED <<job_present, job, w_output_path, w_error, jb_hist, qVars, otherVars>>

\* Lines 154-155: if os.path.exists(output_path): os.unlink(output_path)
WorkerUnlinkOutput ==
    /\ w_pc = "l154"
    /\ jb_fs' = jb_fs \ {w_output_path}
    /\ w_pc' = "done"
    /\ UNCHANGED <<job_present, job, w_output_path, w_error, jb_hist, qVars, otherVars>>

Worker ==
    \/ WorkerStart
    \/ WorkerCut
    \/ WorkerExport
    \/ WorkerCompleted
    \/ WorkerOutputPath
    \/ WorkerCompletedAt
    \/ WorkerFailed
    \/ WorkerError
    \/ WorkerFailedAt
    \/ WorkerInputExists
    \/ WorkerUnlinkInput
    \/ WorkerUnlinkOutput

\* What holds of the job when a query begins: whether a terminal status was
\* written, whether this is the first query to begin after that, and whether
\* a query has already returned the terminal result.
Begin(n) ==
    [NoLocal EXCEPT
       !.n = n,
       !.began_terminal = TerminalReached,
       !.began_first = /\ TerminalReached
                       /\ \A r \in q_log : ~r.began_terminal
                       /\ \A u \in QueryThreads :
                             q_pc[u] # "idle" => ~q_local[u].began_terminal,
       !.began_delivered = \E r \in q_log : Delivers(r)]

Response(l, kind, code, error) ==
    [n |-> l.n, kind |-> kind, code |-> code, error |-> error, saw |-> l.saw,
     began_terminal |-> l.began_terminal, began_first |-> l.began_first,
     began_delivered |-> l.began_delivered]

\* Thread t returns a response and is free again.
Respond(t, l, kind, code, error) ==
    /\ q_log' = q_log \cup {Response(l, kind, code, error)}
    /\ q_pc' = [q_pc EXCEPT ![t] = "idle"]
    /\ q_local' = [q_local EXCEPT ![t] = NoLocal]

\* An exception no handler catches: Flask answers 500.
Fault(t) == Respond(t, q_local[t], "fault", 500, "Internal Server Error")

Goto(t, pc) ==
    /\ q_pc' = [q_pc EXCEPT ![t] = pc]
    /\ UNCHANGED <<q_local, q_log>>

\* Lines 348-349: if job_id not in jobs: return 'Job not found', 404
QueryBegin(t) ==
    /\ q_pc[t] = "idle"
    /\ q_count < MaxQueries
    /\ q_count' = q_count + 1
    /\ IF job_present
       THEN /\ q_pc' = [q_pc EXCEPT ![t] = "l351"]
            /\ q_local' = [q_local EXCEPT ![t] = Begin(q_count + 1)]
            /\ UNCHANGED q_log
       ELSE Respond(t, Begin(q_count + 1), "not_found", 404, "Job not found")
    /\ UNCHANGED <<job_present, job, jb_fs, w_pc, w_output_path, w_error, jb_hist, otherVars>>

\* Line 351: job = jobs[job_id]
QueryFetch(t) ==
    /\ q_pc[t] = "l351"
    /\ IF job_present THEN Goto(t, "l353") ELSE Fault(t)
    /\ UNCHANGED <<job_present, job, jb_fs, w_pc, w_output_path, w_error, jb_hist, q_count, otherVars>>

\* Lines 353, 375, 382-390: the branch on job['status']; any other status is
\* answered with the progress report.
QueryStatus(t) ==
    /\ q_pc[t] = "l353"
    /\ LET l == [q_local[t] EXCEPT !.saw = job.status] IN
          CASE job.status = "completed" ->
                  /\ q_pc' = [q_pc EXCEPT ![t] = "l355"]
                  /\ q_local' = [q_local EXCEPT ![t] = l]
                  /\ UNCHANGED q_log
            [] job.status = "failed" ->
                  /\ q_pc' = [q_pc EXCEPT ![t] = "l376"]
                  /\ q_local' = [q_local EXCEPT ![t] = l]
                  /\ UNCHANGED q_log
            [] OTHER -> Respond(t, l, "progress", 200, "")
    /\ UNCHANGED <<job_present, job, jb_fs, w_pc, w_output_path, w_error, jb_hist, q_count, otherVars>>

\* Line 355: output_path = job['output_path'], a KeyError when the key is unset.
QueryOutputPath(t) ==
    /\ q_pc[t] = "l355"
    /\ IF job.output_path = "unset"
       THEN Fault(t)
       ELSE /\ q_pc' = [q_pc EXCEPT ![t] = "l356"]
            /\ q_local' = [q_local EXCEPT ![t].output_path = job.output_path]
            /\ UNCHANGED q_log
    /\ UNCHANGED <<job_present, job, jb_fs, w_pc, w_output_path, w_error, jb_hist, q_count, otherVars>>

\* Lines 356, 372-373: if os.path.exists(output_path) ... else
\* 'Processed file not found', 500
QueryOutputExists(t) ==
    /\ q_pc[t] = "l356"
    /\ IF q_local[t].output_path \in jb_fs
       THEN Goto(t, "l360")
       ELSE Respond(t, q_local[t], "file_missing", 500, "Processed file not found")
    /\ UNCHANGED <<job_present, job, jb_fs, w_pc, w_output_path, w_error, jb_hist, q_count, otherVars>>

\* Lines 357-361: getsize and read of output_path
QueryRead(t) ==
    /\ q_pc[t] = "l360"
    /\ IF q_local[t].output_path \in jb_fs THEN Goto(t, "l364") ELSE Fault(t)
    /\ UNCHANGED <<job_present, job, jb_fs, w_pc, w_output_path, w_error, jb_hist, q_count, otherVars>>

\* Line 364: os.unlink(job['input_path'])
QueryUnlinkInput(t) ==
    /\ q_pc[t] = "l364"
    /\ IF "input" \in jb_fs
       THEN /\ jb_fs' = jb_fs \ {"input"}
            /\ Goto(t, "l365")
       ELSE /\ Fault(t)
            /\ UNCHANGED jb_fs
    /\ UNCHANGED <<job_present, job, w_pc, w_output_path, w_error, jb_hist, q_count, otherVars>>

\* Line 365: os.unlink(output_path)
QueryUnlinkOutput(t) ==
    /\ q_pc[t] = "l365"
    /\ IF q_local[t].output_path \in jb_fs
       THEN /\ jb_fs' = jb_fs \ {q_local[t].output_path}
            /\ Goto(t, "l366")
       ELSE /\ Fault(t)
            /\ UNCHANGED jb_fs
    /\ UNCHANGED <<job_present, job, w_pc, w_output_path, w_error, jb_hist, q_count, otherVars>>

\* Lines 366-371: del jobs[job_id]; return audio_data, 200
QueryDeliver(t) ==
    /\ q_pc[t] = "l366"
    /\ IF job_present
       THEN /\ job_present' = FALSE
            /\ Respond(t, q_local[t], "artifact", 200, "")
       ELSE /\ Fault(t)
            /\ UNCHANGED job_present
    /\ UNCHANGED <<job, jb_fs, w_pc, w_output_path, w_error, jb_hist, q_count, otherVars>>

\* Line 376: error_msg = job.get('error', 'Unknown error')
QueryErrorMsg(t) ==
    /\ q_pc[t] = "l376"
    /\ q_pc' = [q_pc EXCEPT ![t] = "l378"]
    /\ q_local' = [q_local EXCEPT ![t].error_msg =
                      IF job.error = "unset" THEN "Unknown error" ELSE job.error]
    /\ UNCHANGED <<job_present, job, jb_fs, w_pc, w_output_path, w_error, jb_hist, q_count,
                   q_log, otherVars>>

\* Line 378: if os.path.exists(job['input_path'])
QueryInputExists(t) ==
    /\ q_pc[t] = "l378"
    /\ Goto(t, IF "input" \in jb_fs THEN "l379" ELSE "l380")
    /\ UNCHANGED <<job_present, job, jb_fs, w_pc, w_output_path, w_error, jb_hist, q_count, otherVars>>

\* Line 379: os.unlink(job['input_path'])
QueryFailedUnlink(t) ==
    /\ q_pc[t] = "l379"
    /\ IF "input" \in jb_fs
       THEN /\ jb_fs' = jb_fs \ {"input"}
            /\ Goto(t, "l380")
       ELSE /\ Fault(t)
            /\ UNCHANGED jb_fs
    /\ UNCHANGED <<job_present, job, w_pc, w_output_path, w_error, jb_hist, q_count, otherVars>>

\* Lines 380-381: del jobs[job_id]; return {'error': error_msg}, 500
QueryReportFailed(t) ==
    /\ q_pc[t] = "l380"
    /\ IF job_present
       THEN /\ job_present' = FALSE
            /\ Respond(t, q_local[t], "failed", 500, q_local[t].error_msg)
       ELSE /\ Fault(t)
            /\ UNCHANGED job_present
    /\ UNCHANGED <<job, jb_fs, w_pc, w_output_path, w_error, jb_hist, q_count, otherVars>>

Query ==
    \E t \in QueryThreads :
       \/ QueryBegin(t)
       \/ QueryFetch(t)
       \/ QueryStatus(t)
       \/ QueryOutputPath(t)
       \/ QueryOutputExists(t)
       \/ QueryRead(t)
       \/ QueryUnlinkInput(t)
       \/ QueryUnlinkOutput(t)
       \/ QueryDeliver(t)
       \/ QueryErrorMsg(t)
       \/ QueryInputExists(t)
       \/ QueryFailedUnlink(t)
       \/ QueryReportFailed(t)

NextBatch ==
    \/ ReceiveRequest
    \/ ProcessSingleFile
    \/ RespondNoSuccess
    \/ RespondSingle
    \/ RespondArchive
    \/ RespondArchiveError

InitBatch == BatchInit /\ ExportIdle /\ CutIdle /\ JobsIdle

SpecBatch == InitBatch /\ [][NextBatch]_vars

NextExport ==
    \/ ExportEncode
    \/ ExportCheckSize
    \/ ExportExcept
    \/ ExportFallback

InitExport == ExportInit /\ BatchIdle /\ CutIdle /\ JobsIdle

SpecExport == InitExport /\ [][NextExport]_vars

\* GET /: home() reports the service and its parameters.
Home ==
    /\ cs_pc # "idle"
    /\ home_response' = HomeParameters
    /\ UNCHANGED <<cs_pc, cs_file, cs_params, audio, chunks, cs_result>>
    /\ UNCHANGED <<exVars, rqVars, jbVars>>

NextCut ==
    \/ CutLoad
    \/ CutSplit
    \/ CutCombine
    \/ Home

InitCut == CutInit /\ ExportIdle /\ BatchIdle /\ JobsIdle

SpecCut == InitCut /\ [][NextCut]_vars

NextJobs == Worker \/ Query
InitJobs == JobsInit /\ ExportIdle /\ BatchIdle /\ CutIdle
SpecJobs == InitJobs /\ [][NextJobs]_vars

\* The worker thread is scheduled fairly and its decode and encode calls
\* return; nothing is assumed of the clients' queries.
SpecJobsFair == SpecJobs /\ WF_vars(Worker)

-----------------------------------------------------------------------------
(* Claims about export_mp3_with_size_limit, checked under SpecExport       *)

ExTerminal == ex_pc \in {"returned", "raised"}

\* The encode logged at position k produced a file within the budget.
AttemptFit(k) == ex_log[k].ok /\ ex_log[k].size <= max_size_bytes

\* The k-th encode of a call is at the k-th candidate, then at the fallback.
ExpectedBitrate(k) == IF k <= Len(bitrates) THEN bitrates[k] ELSE ExtremeBitrate

\* C1: the candidates are tried in the descending order 256, 192, 160, 128,
\* 96, 64, 32 and the call returns the encode of the first candidate that
\* succeeded within the budget: nothing tried before the returned encode fit,
\* and a returned list candidate is within the budget and is the file at
\* output_path.
C1_FirstFittingCandidate ==
    /\ \A k \in 1..(Len(bitrates) - 1) : bitrates[k] > bitrates[k + 1]
    /\ \A k \in 1..Len(ex_log) : ex_log[k].bitrate = ExpectedBitrate(k)
    /\ ex_pc = "returned" =>
          LET n == Len(ex_log) IN
          /\ n >= 1
          /\ ex_log[n] = [bitrate |-> ex_ret.bitrate, ok |-> TRUE, size |-> ex_ret.size]
          /\ ex_fs[output_path] = ex_ret.size
          /\ \A j \in 1..(n - 1) : ~AttemptFit(j)
          /\ ex_ret.bitrate # ExtremeBitrate => ex_ret.size <= max_size_bytes

\* C1 witness: a list candidate is returned after a higher candidate failed to
\* encode and another was over the budget.
C1_Witness ==
    /\ ex_pc = "returned"
    /\ ex_ret.bitrate # ExtremeBitrate
    /\ \E j \in 1..(Len(ex_log) - 1) : ~ex_log[j].ok
    /\ \E j \in 1..(Len(ex_log) - 1) : ex_log[j].ok /\ ex_log[j].size > max_size_bytes

\* C2: the fallback encode at 24 kbps (below every list entry) happens only
\* after all seven candidates were tried and none fit, and at most once; when
\* the call ends with no candidate having fit, the fallback was performed; and
\* a successful fallback is returned whatever its size.
C2_FallbackOnceUnconditional ==
    /\ \A k \in 1..Len(bitrates) : ExtremeBitrate < bitrates[k]
    /\ \A k \in 1..Len(ex_log) :
          ex_log[k].bitrate = ExtremeBitrate =>
             /\ k = Len(bitrates) + 1
             /\ \A j \in 1..Len(bitrates) : ~AttemptFit(j)
    /\ (ExTerminal /\ \A j \in 1..Len(ex_log) : j <= Len(bitrates) => ~AttemptFit(j)) =>
          /\ Len(ex_log) = Len(bitrates) + 1
          /\ ex_log[Len(ex_log)].bitrate = ExtremeBitrate
          /\ ex_log[Len(ex_log)].ok =>
                /\ ex_pc = "returned"
                /\ ex_ret = [bitrate |-> ExtremeBitrate, size |-> ex_log[Len(ex_log)].size]
                /\ ex_fs[output_path] = ex_ret.size

\* C2 witness: the fallback result is returned although it exceeds the budget.
C2_Witness ==
    /\ ex_pc = "returned"
    /\ ex_ret.bitrate = ExtremeBitrate
    /\ ex_ret.size > max_size_bytes

\* C3: a failed encode of a candidate never ends the search: the call ends
\* either by returning an encode that succeeded, or by raising after all
\* seven candidates and the fallback were attempted and the fallback failed.
C3_FailureContinuesSearch ==
    /\ ex_pc = "returned" => ex_log[Len(ex_log)].ok
    /\ ex_pc = "raised" =>
          /\ Len(ex_log) = Len(bitrates) + 1
          /\ \A k \in 1..Len(ex_log) : ex_log[k].bitrate = ExpectedBitrate(k)
          /\ ~ex_log[Len(ex_log)].ok
    /\ \A k \in 1..(Len(ex_log) - 1) :
          ~ex_log[k].ok => ex_log[k + 1].bitrate = ExpectedBitrate(k + 1)
    /\ \A k \in 1..Len(ex_log) :
          (~ex_log[k].ok /\ k = Len(ex_log) /\ ExTerminal) => k = Len(bitrates) + 1

\* C3 witness: the call raised, after candidates that failed and candidates
\* that encoded over the budget.
C3_Witness ==
    /\ ex_pc = "raised"
    /\ \E j \in 1..Len(bitrates) : ~ex_log[j].ok
    /\ \E j \in 1..Len(bitrates) : ex_log[j].ok

\* Steps left before the call must have ended.
ExMeasure ==
    2 * (Len(bitrates) + 1 - Len(ex_log))
      + (IF ex_pc \in {"encoded", "except"} THEN 1 ELSE 0)

ExBounded ==
    /\ Len(ex_log) <= Len(bitrates) + 1
    /\ \A j, k \in 1..Len(ex_log) : ex_log[j].bitrate = ex_log[k].bitrate => j = k
    /\ ExMeasure >= 0
    /\ ~ExTerminal => ENABLED NextExport

\* C4: a call performs at most len(bitrates) + 1 = 8 encodes, at most one per
\* candidate and one fallback, and it terminates: it is never stuck before it
\* has returned or raised, and every step brings it closer to its end.
C4_AtMostEightEncodes == [](ExBounded) /\ [][ExMeasure' < ExMeasure]_vars

\* C4 witness: a call that ended after eight encodes.
C4_Witness == ExTerminal /\ Len(ex_log) = Len(bitrates) + 1

\* The per-candidate temporary files that exist.
TempFiles == {p \in ExPaths : p # output_path /\ ex_fs[p] # Absent}

\* C18: a rejected attempt is reclaimed at once: the temporary file of a
\* candidate over the budget, or of a failed encode, is gone before the next
\* candidate is encoded, so at most one temporary file exists at any time,
\* and it is the current candidate's; none remains when the call has
\* returned or raised.
C18_TempFilesReclaimed ==
    /\ Cardinality(TempFiles) <= 1
    /\ ex_pc \in {"loop", "fallback", "returned", "raised"} => TempFiles = {}
    /\ ex_pc \in {"encoded", "except"} => TempFiles \subseteq {temp_path(bitrates[ex_i])}

\* C18 witness: the call returned a lower candidate after a failed encode
\* that left a partial file and an encode over the budget.
C18_Witness ==
    /\ ex_pc = "returned"
    /\ Len(ex_log) >= 3
    /\ ~ex_log[1].ok
    /\ ex_log[2].ok /\ ex_log[2].size > max_size_bytes
    /\ TempFiles = {}


-----------------------------------------------------------------------------
(* Claims about /process-audio, checked under SpecBatch                    *)

\* N, the number of files processed, and S, the number that succeeded.
NFiles == Len(files)
NSuccess == Cardinality({k \in 1..Len(rq_env) : rq_env[k] = "ok"})

Responded == rq_pc = "done" /\ NFiles > 0

\* C5: the files of a batch are processed independently: a failing file
\* (save, decode, segmentation or export error) never ends the request, which
\* answers only after every file was processed; exactly one outcome per file
\* is collected, in upload order; a failure is captured in that file's
\* outcome; and a file succeeds exactly when its own processing succeeded,
\* whatever happened to the files before it.
C5_FilesIndependent ==
    /\ Len(results) = Len(rq_env)
    /\ Len(results) <= NFiles
    /\ Responded => Len(results) = NFiles
    /\ \A k \in 1..Len(results) :
          /\ results[k].part = files[k]
          /\ results[k].filename = rq_parts[files[k]].filename
          /\ results[k].success <=> rq_env[k] = "ok"
          /\ ~results[k].success => results[k].error \notin {"", "None"}
    /\ \A j, k \in 1..NFiles : j < k => files[j] < files[k]
    /\ response.status = 500 =>
          response.error \in {"No files processed successfully", "Error creating zip archive"}

\* C5 witness: a batch of three answered after a failure, a success and
\* another failure.
C5_Witness ==
    /\ Responded
    /\ NFiles >= 3
    /\ ~results[1].success
    /\ results[2].success
    /\ ~results[3].success

\* C6 as stated: the shape of the response is decided by N and S alone:
\* S = 0 gives a 500 listing every failure and no archive, N = 1 and S = 1
\* the artifact itself, N > 1 and S >= 1 one zip archive.
C6_ShapeByCountsOnly ==
    Responded =>
       /\ NSuccess = 0 =>
             /\ response.status = 500
             /\ response.kind = "json"
             /\ response.archive = <<>>
             /\ Len(response.details) = NFiles
             /\ \A k \in 1..NFiles :
                   response.details[k] =
                      [filename |-> results[k].filename, error |-> results[k].error]
       /\ (NFiles = 1 /\ NSuccess = 1) =>
             /\ response.status = 200
             /\ response.kind = "audio/wav"
             /\ response.body = files[1]
             /\ response.archive = <<>>
       /\ (NFiles > 1 /\ NSuccess >= 1) =>
             /\ response.status = 200
             /\ response.kind = "application/zip"

\* C6, amended: as C6_ShapeByCountsOnly, except that for N > 1 and S >= 1 the
\* response is the zip archive or, when building the archive raised, a 500
\* JSON error naming the archive; it is never the bare artifact.
C6_ShapeByCountsOrArchiveError ==
    Responded =>
       /\ NSuccess = 0 =>
             /\ response.status = 500
             /\ response.kind = "json"
             /\ response.archive = <<>>
             /\ Len(response.details) = NFiles
             /\ \A k \in 1..NFiles :
                   response.details[k] =
                      [filename |-> results[k].filename, error |-> results[k].error]
       /\ (NFiles = 1 /\ NSuccess = 1) =>
             /\ response.status = 200
             /\ response.kind = "audio/wav"
             /\ response.body = files[1]
             /\ response.archive = <<>>
       /\ (NFiles > 1 /\ NSuccess >= 1) =>
             \/ /\ response.status = 200
                /\ response.kind = "application/zip"
                /\ response.archive # <<>>
             \/ /\ response.status = 500
                /\ response.kind = "json"
                /\ response.error = "Error creating zip archive"
                /\ response.archive = <<>>

\* C6 witness: a batch of several files of which exactly one succeeded is
\* answered with a zip archive.
C6_Witness ==
    /\ Responded
    /\ NFiles > 1
    /\ NSuccess = 1
    /\ response.kind = "application/zip"

\* The positions in "files" of the files that succeeded, in order.
SuccessPositions == SelectSeq([k \in 1..Len(rq_env) |-> k], LAMBDA k : rq_env[k] = "ok")

C8_NoTemporaryFileRemains == rq_pc = "done" => rq_fs = {}

\* C9: a request with no file part, or whose parts all have an empty
\* filename, is refused with 400 and a JSON error before any work:
\* process_single_file is never invoked and no temporary file is created.
C9_EmptyRequestRefused ==
    (rq_pc # "recv" /\ \A k \in 1..Len(rq_parts) : rq_parts[k].filename = "") =>
       /\ rq_pc = "done"
       /\ response.status = 400
       /\ response.kind = "json"
       /\ response.error # ""
       /\ results = <<>>
       /\ rq_env = <<>>
       /\ rq_created = {}
       /\ rq_fs = {}

\* C9 witness: a request of two parts, neither with a filename, was refused.
C9_Witness ==
    /\ rq_pc = "done"
    /\ Len(rq_parts) >= 2
    /\ \A k \in 1..Len(rq_parts) : rq_parts[k].filename = ""
    /\ response.status = 400

\* The uploaded parts that carry a filename.
NamedParts == {k \in 1..Len(rq_parts) : rq_parts[k].filename # ""}

\* C14: every uploaded file part with a non-empty filename, under the field
\* file or audio, the second and later parts of the field file included, is
\* processed and yields exactly one outcome: when the request has returned,
\* there are as many outcomes as named parts, one for each.
C14_EveryNamedPartProcessed ==
    rq_pc = "done" =>
       /\ Len(results) = Cardinality(NamedParts)
       /\ \A k \in NamedParts :
             Cardinality({j \in 1..Len(results) : results[j].part = k}) = 1

\* C16: a request with a file whose extension is not on the allow-list is
\* answered 400 with a JSON error at once: that file is never processed and
\* no temporary file is created for it.
C16_DisallowedExtensionRefused ==
    /\ \A j \in 1..Len(results) : Extension(results[j].filename) \in AllowedExtensions
    /\ (rq_pc = "done"
          /\ \E k \in NamedParts : Extension(rq_parts[k].filename) \notin AllowedExtensions) =>
          /\ response.status = 400
          /\ response.kind = "json"
          /\ response.error # ""
          /\ rq_created = {}


-----------------------------------------------------------------------------
(* Claims about cut_silence, checked under SpecCut                         *)

\* C10: when segmentation yields no chunk, as it does for a track that is
\* below the silence threshold throughout, cut_silence returns the decoded
\* track unchanged; and from a track of non-zero length it never returns a
\* track of zero length.
C10_SilentTrackReturnedUnchanged ==
    cs_pc = "returned" =>
       /\ chunks = <<>> => cs_result = audio
       /\ (\A k \in 1..Len(audio) : audio[k].level < silence_thresh) => cs_result = audio
       /\ audio = Decode(cs_file)
       /\ Len(audio) > 0 => Len(cs_result) > 0

\* C10 witness: a track of non-zero length, silent throughout and longer than
\* min_silence_len, was returned.
C10_Witness ==
    /\ cs_pc = "returned"
    /\ Len(audio) * WindowMs > min_silence_len
    /\ \A k \in 1..Len(audio) : audio[k].level < silence_thresh
    /\ cs_result = audio

\* The length of the chunks before chunk i.
RECURSIVE ChunkOffset(_)
ChunkOffset(i) == IF i <= 1 THEN 0 ELSE ChunkOffset(i - 1) + Len(chunks[i - 1])

\* C15: the parameters GET / reports are the ones in effect: each reported
\* value equals the value cut_silence applies.
C15_ReportedParametersInEffect ==
    (home_response # NoHome /\ cs_pc \in {"split", "combine", "returned"}) =>
       /\ home_response.min_silence_len = cs_params.min_silence_len
       /\ home_response.silence_thresh = cs_params.silence_thresh
       /\ home_response.keep_silence = cs_params.keep_silence

\* C17: from a non-empty chunk list cut_silence returns the chunks
\* concatenated in order, nothing added, dropped or reordered: the output is
\* as long as the chunks together and chunk i's frames fill the places after
\* those of the chunks before it; the decoded source track is not changed.
C17_ChunksConcatenatedInOrder ==
    /\ cs_pc \in {"split", "combine", "returned"} => audio = Decode(cs_file)
    /\ (cs_pc = "returned" /\ chunks # <<>>) =>
          /\ Len(cs_result) = ChunkOffset(Len(chunks) + 1)
          /\ \A i \in 1..Len(chunks) : \A j \in 1..Len(chunks[i]) :
                cs_result[ChunkOffset(i) + j] = chunks[i][j]

\* C17 witness: two chunks, the second starting later in the source than the
\* first, were concatenated.
C17_Witness ==
    /\ cs_pc = "returned"
    /\ Len(chunks) >= 2
    /\ chunks[1][1].pos < chunks[2][1].pos
    /\ cs_result # audio

-----------------------------------------------------------------------------
(* Claims about the job table, the worker and the status queries           *)

IsPrefix(s, t) == Len(s) <= Len(t) /\ \A k \in 1..Len(s) : s[k] = t[k]

\* C11: the status of a job only moves along pending -> processing ->
\* (completed | failed): the worker that picks the job up sets processing, a
\* terminal status is written at most once, and no status is written after
\* it, whatever the queries do in between.
C11_StatusMovesForward ==
    /\ \/ IsPrefix(jb_hist, <<"pending", "processing", "completed">>)
       \/ IsPrefix(jb_hist, <<"pending", "processing", "failed">>)
    /\ job.status = jb_hist[Len(jb_hist)]
    /\ w_pc = "idle" <=> jb_hist = <<"pending">>

\* The worker's exception handler ran after completed had been written,
\* because a query removed the record under it.
C11_Witness ==
    /\ w_pc = "faulted"
    /\ jb_hist = <<"pending", "processing", "completed">>
    /\ ~job_present

\* C19: under SpecJobsFair, once the worker of a job has started, the status
\* of the job eventually becomes completed or failed, whatever queries are
\* made in the meantime.
C19_StartedJobBecomesTerminal ==
    (w_pc \notin {"idle", "off"}) ~> (job.status \in {"completed", "failed"})

\* The worker finished a job while queries were being made.
C19_Witness ==
    /\ w_pc = "done"
    /\ job.status \in {"completed", "failed"}
    /\ q_count > 0
    /\ \E t \in QueryThreads : q_pc[t] # "idle"

Quiescent ==
    /\ w_pc \in {"done", "faulted"}
    /\ \A t \in QueryThreads : q_pc[t] = "idle"

\* C12: single delivery. The first query begun after the job became
\* completed or failed returns its terminal result (the artifact with 200 or
\* the error with 500) and removes the record; at most one query returns the
\* terminal result; every query begun after that one is answered 404.
C12_SingleDelivery ==
    /\ \A r \in q_log : r.began_first => Delivers(r)
    /\ Cardinality({r \in q_log : Delivers(r)}) <= 1
    /\ \A r \in q_log : r.began_delivered => r.kind = "not_found" /\ r.code = 404
    /\ (\E r \in q_log : Delivers(r)) => ~job_present

\* C13: status reads and writes cannot race with the worker. A query that
\* read status completed reads the output path the worker wrote; a query
\* that read status failed reports the message the worker recorded; the
\* worker never faults on a field write because the record was removed after
\* its status write.
C13_NoRaceWithWorker ==
    /\ \A t \in QueryThreads : q_pc[t] = "l355" => job.output_path = w_output_path
    /\ \A t \in QueryThreads :
          q_pc[t] \in {"l378", "l379", "l380"} => q_local[t].error_msg = w_error
    /\ \A r \in q_log : r.kind = "failed" => r.error = w_error
    /\ ~(w_pc = "faulted" /\ ~job.completed_at)

\* C20: no artifact outlives its job. Once the terminal result was returned,
\* the record is removed and the worker and the queries have come to rest,
\* neither the input file nor the output file exists; and a record left in
\* a terminal status can still be delivered by a further query.
C20_NoArtifactOutlivesJob ==
    /\ (Quiescent /\ ~job_present /\ \E r \in q_log : Delivers(r)) => jb_fs = {}
    /\ (Quiescent /\ job_present /\ job.status = "completed") =>
          job.output_path \in jb_fs /\ "input" \in jb_fs

====
